---- MODULE Spec2Model ----
(***************************************************************************)
(* Model of scripts/manage-packages (list / report / delete of GHCR        *)
(* package versions): main(), runCmd(), deletePackageVersions(),           *)
(* findOrphanOrTaggedPackageVersions(), getPackageVersionsByImageTag(),    *)
(* getDigestsFromManifestIndex(), forEachPackageVersion(), the p-limit     *)
(* task pool and the process-wide AbortController.                         *)
(*                                                                         *)
(* The program runs on one event loop.  Every action below is one          *)
(* uninterrupted stretch of code between two network suspensions.          *)
(***************************************************************************)
EXTENDS Integers, Sequences, FiniteSets, TLC

\* ------------------------------------------------------------------ bounds
MaxRecords == 3
MaxManifest == 2
PoolRecords == 7

\* ------------------------------------------------------- program constants
Concurrency == 5
UNKNOWN_TAG == "Unknown"
NoId == 0
NoDigest == "undefined"
UnsettledTopLevelAwait == 13

DigestNames == <<"D0", "D1", "D2", "D3", "D4", "D5", "D6", "D7", "D8">>
Digests == {DigestNames[i] : i \in 1..MaxRecords}
Tags == {"v1", "latest"}
TagLists == <<(<<>>), <<"v1">>, <<"latest">>, <<"v1", "latest">>>>

Range(s) == {s[i] : i \in DOMAIN s}

\* A ledger record as the package API returns it: id, name (the digest) and
\* metadata.container.tags.  Choice 0 is a record with a falsy name.
PackageVersion(p, c) ==
    IF c = 0 THEN [id |-> p, name |-> "", tags |-> <<>>]
    ELSE [id |-> p, name |-> DigestNames[p], tags |-> TagLists[c]]

\* In the registry a tag points at one image index: no two records share a tag.
TagsDisjoint(l) ==
    \A p, q \in DOMAIN l : p # q => Range(l[p].tags) \cap Range(l[q].tags) = {}

\* The ledgers of up to MaxRecords records; digests are named in ledger order.
Ledgers ==
    {l \in UNION {{[p \in 1..n |-> PackageVersion(p, c[p])] : c \in [1..n -> 0..Len(TagLists)]}
                  : n \in 0..MaxRecords} : TagsDisjoint(l)}

\* The entries an image index may list: the digests, and NoDigest for an
\* entry whose digest field is missing.
ManifestEntries == [i \in 1..(MaxRecords + 1) |-> IF i <= MaxRecords THEN DigestNames[i] ELSE NoDigest]

\* The i-th smallest element of a set of numbers.
RECURSIVE Sorted(_)
Sorted(S) ==
    IF S = {} THEN <<>>
    ELSE LET m == CHOOSE x \in S : \A y \in S : x <= y
         IN  <<m>> \o Sorted(S \ {m})

\* The manifests array of a fetched image index, as the list of its digest
\* fields: up to MaxManifest distinct entries, listed in the order of
\* ManifestEntries.
Manifests ==
    {[i \in DOMAIN Sorted(S) |-> ManifestEntries[Sorted(S)[i]]] :
        S \in {T \in SUBSET (DOMAIN ManifestEntries) : Cardinality(T) <= MaxManifest}}

\* A ledger of PoolRecords image indexes, each with a tag of its own: more
\* fetch tasks than the limiter runs at once.
PoolTagNames == <<"v1", "latest", "t3", "t4", "t5", "t6", "t7", "t8">>
PoolLedger ==
    [p \in 1..PoolRecords |-> [id |-> p, name |-> DigestNames[p], tags |-> <<PoolTagNames[p]>>]]

\* The image indexes of the pool ledger and of the ledgers with shared tags:
\* empty, or listing the digest of the first record.
PoolManifests == {<<>>, <<DigestNames[1]>>}

\* Ledgers in which a tag may appear in the tag list of several records (the
\* pages of the enumeration are not one snapshot), and may be 'Unknown'.
AnyTagLists == TagLists \o <<(<<UNKNOWN_TAG>>), <<"v1", UNKNOWN_TAG>>>>
AnyLedgers ==
    UNION {{[p \in 1..n |-> [id |-> p, name |-> DigestNames[p], tags |-> AnyTagLists[c[p]]]]
              : c \in [1..n -> 1..Len(AnyTagLists)]} : n \in 0..MaxRecords}

VARIABLES
    mode,            \* opts.command: "list", "report" or "delete"
    argv,            \* process.argv.slice(2): subcommand, option, positionals
    tagsArg,         \* opts.tags
    orphansOpt,      \* opts.deleteOrphans
    ledger,          \* the package versions the ledger API enumerates
    pc,              \* position of main()
    idx,             \* next ledger record of forEachPackageVersion
    signal,          \* controller.signal: aborted, reason
    exitCode,        \* process.exitCode, 0 when unset
    digestToPkgMap,  \* DefaultValueMap<Digest, PkgInfo>: vals and insertion order
    tasks,           \* the promises of tasks[], with the p-limit state of each
    stats,           \* what logRegistryStats logged
    delPos,          \* position of the deletion loop in the map's iteration
    deleteCalls,     \* requests issued by deletePackageVersion
    deletedCount,    \* deletedCount of deletePackageVersions
    pkgVersions,     \* list path: pkgVersions[]
    tagGroups,       \* list path: TagGroupMap
    digestToHeadTag, \* list path: Map<Digest, Tag>
    printed,         \* list path: console output of printPackageVersionsForImageTags
    log,             \* logger output: main's abort listener, the loop's warnings
    caught           \* the error the catch block of main() caught, if any

vars == <<argv, mode, tagsArg, orphansOpt, ledger, pc, idx, signal, exitCode,
          digestToPkgMap, tasks, stats, delPos, deleteCalls, deletedCount,
          pkgVersions, tagGroups, digestToHeadTag, printed, log, caught>>

inputs == <<argv, mode, tagsArg, orphansOpt, ledger>>
listVars == <<pkgVersions, tagGroups, digestToHeadTag, printed>>
planVars == <<stats, delPos, deleteCalls, deletedCount>>

\* ------------------------------------------------------------ runCmd
TagsToDelete == IF mode = "report" THEN {} ELSE tagsArg
DeleteOrphans == IF mode = "report" THEN FALSE ELSE orphansOpt
DeletePath == mode \in {"delete", "report"}

\* ------------------------------------------------------------ errors
Err(kind, who) == [kind |-> kind, who |-> who]
NoReason == Err("none", 0)

\* ------------------------------------------------------------ logger
LogEntry(kind, err, digest) == [kind |-> kind, err |-> err, digest |-> digest]

\* ------------------------------------------------------------ AbortController
\* Faulty variant: the abort listener leaves the queue of the limiter alone.
ClearQueueKeeps(ts) == ts

\* limit.clearQueue(): the queued functions are discarded; the promises that
\* limit() returned for them stay pending.
ClearQueue(ts) ==
    [i \in DOMAIN ts |-> IF ts[i].st = "queued" THEN [ts[i] EXCEPT !.st = "dropped"] ELSE ts[i]]

\* Faulty variant: the exit code is left as it is.
OrAssignOneUnset(ec) == ec

\* process.exitCode ||= 1
OrAssignOne(ec) == IF ec = 0 THEN 1 ELSE ec

\* Faulty variant: every abort() call sets the reason and dispatches the event.
ControllerAbortOverwrite(sig, err, ts, ec) ==
    [signal |-> [aborted |-> TRUE, reason |-> err],
     tasks |-> ClearQueue(ts),
     exitCode |-> OrAssignOne(ec),
     logged |-> <<LogEntry("abort", err, "")>>]

\* controller.abort(err) with the two "abort" listeners (limit.clearQueue and
\* main's listener); a no-op when the signal is already aborted.
ControllerAbort(sig, err, ts, ec) ==
    IF sig.aborted
    THEN [signal |-> sig, tasks |-> ts, exitCode |-> ec, logged |-> <<>>]
    ELSE [signal |-> [aborted |-> TRUE, reason |-> err],
          tasks |-> ClearQueue(ts),
          exitCode |-> OrAssignOne(ec),
          logged |-> <<LogEntry("abort", err, "")>>]

\* The catch block of main() for an error that is not a CmdLineParserError.
MainCatch(sig, err, ts, ec) == ControllerAbort(sig, err, ts, OrAssignOne(ec))

\* ------------------------------------------------------------ DefaultValueMap
DefaultPkgInfo ==
    [id |-> NoId, isOrphan |-> TRUE, belongsToTagsToDelete |-> FALSE,
     indexDigest |-> "", tags |-> <<>>]

EmptyMap == [vals |-> [k \in {} |-> DefaultPkgInfo], keys |-> <<>>]

MapSet(dm, k, v) ==
    [vals |-> [x \in (DOMAIN dm.vals) \cup {k} |-> IF x = k THEN v ELSE dm.vals[x]],
     keys |-> IF k \in DOMAIN dm.vals THEN dm.keys ELSE Append(dm.keys, k)]

\* DefaultValueMap.get: the map after the call (a missing key is inserted).
DefaultValueMapGet(dm, k) ==
    IF k \in DOMAIN dm.vals THEN dm ELSE MapSet(dm, k, DefaultPkgInfo)

\* ------------------------------------------------------------ p-limit
Running(ts) == Cardinality({i \in DOMAIN ts : ts[i].st = "running"})
Queued(ts) == {i \in DOMAIN ts : ts[i].st = "queued"}

\* Faulty variant: every submitted task starts at once.
LimitSubmitUnlimited(ts, digest, tag, btd) ==
    Append(ts, [digest |-> digest, tag |-> tag, btd |-> btd, st |-> "running",
                outcome |-> "pending", fetched |-> <<>>, applied |-> <<>>])

\* Faulty variant: the tasks read one head tag, that of the newest record.
LimitSubmitSharedTag(ts, digest, tag, btd) ==
    Append([i \in DOMAIN ts |-> [ts[i] EXCEPT !.tag = tag]],
           [digest |-> digest, tag |-> tag, btd |-> btd,
            st |-> IF Running(ts) < Concurrency THEN "running" ELSE "queued",
            outcome |-> "pending", fetched |-> <<>>, applied |-> <<>>])

\* limit(fn): the task starts at once when fewer than Concurrency are active.
LimitSubmit(ts, digest, tag, btd) ==
    Append(ts, [digest |-> digest, tag |-> tag, btd |-> btd,
                st |-> IF Running(ts) < Concurrency THEN "running" ELSE "queued",
                outcome |-> "pending", fetched |-> <<>>, applied |-> <<>>])

\* Faulty variant: when a task settles the newest queued task starts.
LimitNextNewest(ts, t, outcome, fetched, applied) ==
    LET done == [ts EXCEPT ![t].st = "done", ![t].outcome = outcome,
                           ![t].fetched = fetched, ![t].applied = applied]
        q == Queued(done)
    IN  IF q = {} THEN done
        ELSE LET h == CHOOSE i \in q : \A j \in q : i >= j
             IN  [done EXCEPT ![h].st = "running"]

\* A task settles: the oldest queued task, if any, starts.
LimitNext(ts, t, outcome, fetched, applied) ==
    LET done == [ts EXCEPT ![t].st = "done", ![t].outcome = outcome,
                           ![t].fetched = fetched, ![t].applied = applied]
        q == Queued(done)
    IN  IF q = {} THEN done
        ELSE LET h == CHOOSE i \in q : \A j \in q : i <= j
             IN  [done EXCEPT ![h].st = "running"]

\* ------------------------------------------------------------ delete/report path
\* pkg.metadata.container.tags with falsy tags filtered out.
FilterTags(tags) == SelectSeq(tags, LAMBDA t : t # "")

\* Faulty variant: the intersection itself is tested, and a Set is truthy.
BelongsToTagsToBeDeletedNoSize(T, tags) == TRUE

\* !!tagsToDelete.intersection(new Set(tags)).size
BelongsToTagsToBeDeleted(T, tags) == T \cap Range(tags) # {}

\* Faulty variant: the callback starts the node of the record afresh.
SetIdFresh(n, id) == [DefaultPkgInfo EXCEPT !.id = id]

\* pkgInfo.id = pkg.id
SetId(n, id) == [n EXCEPT !.id = id]

\* Faulty variant: the callback leaves the index's node marked orphan.
MarkIndexStillOrphan(n, pkgDigest, tags, btd) ==
    [n EXCEPT !.indexDigest = pkgDigest, !.tags = tags, !.belongsToTagsToDelete = btd]

\* The callback's updates of the node of an enumerated image index.
MarkIndex(n, pkgDigest, tags, btd) ==
    [n EXCEPT !.indexDigest = pkgDigest, !.tags = tags, !.isOrphan = FALSE,
              !.belongsToTagsToDelete = btd]

\* Faulty variant: the fetch task does not record the index that lists the digest.
MarkListedNoIndexDigest(n, pkgDigest, btd) ==
    [n EXCEPT !.belongsToTagsToDelete = btd, !.isOrphan = FALSE]

\* The fetch task's updates of the node of one digest of the image index.
MarkListed(n, pkgDigest, btd) ==
    [n EXCEPT !.belongsToTagsToDelete = btd, !.isOrphan = FALSE,
              !.indexDigest = pkgDigest]

\* digests.forEach(...) of the fetch task.
RECURSIVE ApplyDigests(_, _, _, _)
ApplyDigests(dm, digests, pkgDigest, btd) ==
    IF digests = <<>> THEN dm
    ELSE LET d == Head(digests)
             dm1 == DefaultValueMapGet(dm, d)
         IN  ApplyDigests(MapSet(dm1, d, MarkListed(dm1.vals[d], pkgDigest, btd)),
                          Tail(digests), pkgDigest, btd)

\* Faulty variant: the orphans are deleted whether or not --orphans was given.
QualifiesOrphansAlways(n, deleteOrphans) ==
    n.belongsToTagsToDelete \/ n.isOrphan

\* Faulty variant: the orphans are never deleted.
QualifiesTargetsOnly(n, deleteOrphans) ==
    n.belongsToTagsToDelete

\* Faulty variant: the deletion target flag is not consulted.
QualifiesNonOrphans(n, deleteOrphans) ==
    ~n.isOrphan \/ (deleteOrphans /\ n.isOrphan)

\* The condition under which the deletion loop calls deletePackageVersion.
Qualifies(n, deleteOrphans) ==
    n.belongsToTagsToDelete \/ (deleteOrphans /\ n.isOrphan)

\* The 'marked orphan, but ...' check of the deletion loop.
OrphanInconsistent(n) == n.isOrphan /\ (n.indexDigest # "" \/ n.tags # <<>>)

\* The counters of logRegistryStats.
RECURSIVE SumTags(_, _)
SumTags(dm, i) ==
    IF i > Len(dm.keys) THEN 0 ELSE Len(dm.vals[dm.keys[i]].tags) + SumTags(dm, i + 1)

\* Faulty variant: every node is counted as a package version.
RegistryStatsAllNodes(dm) ==
    [logged |-> TRUE,
     idCount |-> Len(dm.keys),
     digests |-> Len(dm.keys),
     overallTagCount |-> SumTags(dm, 1),
     orphanCount |-> Cardinality({k \in DOMAIN dm.vals : dm.vals[k].isOrphan}),
     tagToBeDeletedDigestCount |-> Cardinality({k \in DOMAIN dm.vals : dm.vals[k].belongsToTagsToDelete})]

RegistryStats(dm) ==
    [logged |-> TRUE,
     idCount |-> Cardinality({k \in DOMAIN dm.vals : dm.vals[k].id # NoId}),
     digests |-> Len(dm.keys),
     overallTagCount |-> SumTags(dm, 1),
     orphanCount |-> Cardinality({k \in DOMAIN dm.vals : dm.vals[k].isOrphan}),
     tagToBeDeletedDigestCount |-> Cardinality({k \in DOMAIN dm.vals : dm.vals[k].belongsToTagsToDelete})]

NoStats ==
    [logged |-> FALSE, idCount |-> 0, digests |-> 0, overallTagCount |-> 0,
     orphanCount |-> 0, tagToBeDeletedDigestCount |-> 0]

\* ------------------------------------------------------------ list path
\* Faulty variant: the map starts without the group of 'Unknown'.
InitTagGroupsEmpty == [t \in {} |-> [obj |-> 0, members |-> <<UNKNOWN_TAG>>]]

\* new Map([[UNKNOWN_TAG, new Set([UNKNOWN_TAG])]])
InitTagGroups == [t \in {UNKNOWN_TAG} |-> [obj |-> 0, members |-> <<UNKNOWN_TAG>>]]

\* Faulty variant: only the head tag is mapped to the record's set.
SetTagGroupHeadOnly(tg, tags, obj) ==
    [t \in (DOMAIN tg) \cup {tags[1]} |->
        IF t = tags[1] THEN [obj |-> obj, members |-> tags] ELSE tg[t]]

\* Faulty variant: a tag that is already in the map keeps its set.
SetTagGroupKeepFirst(tg, tags, obj) ==
    [t \in (DOMAIN tg) \cup Range(tags) |->
        IF t \in DOMAIN tg THEN tg[t] ELSE [obj |-> obj, members |-> tags]]

\* tagGroup = new Set(tags); tagGroup.forEach((tag) => tagGroups.set(tag, tagGroup))
SetTagGroup(tg, tags, obj) ==
    [t \in (DOMAIN tg) \cup Range(tags) |->
        IF t \in Range(tags) THEN [obj |-> obj, members |-> tags] ELSE tg[t]]

\* digests.forEach((digest) => digestToHeadTag.set(digest, headTag))
SetHeadTags(dh, digests, headTag) ==
    [d \in (DOMAIN dh) \cup Range(digests) |->
        IF d \in Range(digests) THEN headTag ELSE dh[d]]

HeadTagOf(dh, name) == IF name \in DOMAIN dh THEN dh[name] ELSE UNKNOWN_TAG

\* Map.groupBy(pkgVersions, ...): buckets in order of first appearance.
RECURSIVE GroupBy(_, _, _)
GroupBy(pkgs, dh, acc) ==
    IF pkgs = <<>> THEN acc
    ELSE LET k == HeadTagOf(dh, Head(pkgs).name)
             hit == {i \in DOMAIN acc : acc[i].headTag = k}
         IN  IF hit = {}
             THEN GroupBy(Tail(pkgs), dh, Append(acc, [headTag |-> k, pkgs |-> <<Head(pkgs).id>>]))
             ELSE LET i == CHOOSE i \in hit : TRUE
                  IN  GroupBy(Tail(pkgs), dh,
                              [acc EXCEPT ![i].pkgs = Append(acc[i].pkgs, Head(pkgs).id)])

\* Faulty variant: the tag filter is not applied to the buckets.
FilteredOutNever(filter, tagGroup) == FALSE

\* if (tags.size && !tags.intersection(tagGroup).size) return;
FilteredOut(filter, tagGroup) ==
    filter # {} /\ filter \cap Range(tagGroup.members) = {}

\* The forEach of printPackageVersionsForImageTags over the buckets.
RECURSIVE PrintBuckets(_, _, _, _)
PrintBuckets(buckets, tg, filter, out) ==
    IF buckets = <<>> THEN out
    ELSE LET b == Head(buckets)
         IN  IF b.headTag \notin DOMAIN tg
             THEN PrintBuckets(Tail(buckets), tg, filter, out)
             ELSE IF FilteredOut(filter, tg[b.headTag])
             THEN PrintBuckets(Tail(buckets), tg, filter, out)
             ELSE PrintBuckets(Tail(buckets), tg, filter,
                               [out EXCEPT !.lines = Append(@, [tags |-> tg[b.headTag].members,
                                                                pkgs |-> b.pkgs]),
                                           !.tagGroupCount = @ + 1,
                                           !.pkgCount = @ + Len(b.pkgs)])

NotPrinted == [done |-> FALSE, lines |-> <<>>, pkgCount |-> 0, tagGroupCount |-> 0]

PrintPackageVersions(pkgs, dh, tg, filter) ==
    PrintBuckets(GroupBy(pkgs, dh, <<>>), tg, filter, [NotPrinted EXCEPT !.done = TRUE])

\* ------------------------------------------------------------ initial state
\* The state when main() starts.
Constructed ==
    /\ pc = "main"
    /\ idx = 1
    /\ signal = [aborted |-> FALSE, reason |-> NoReason]
    /\ exitCode = 0
    /\ digestToPkgMap = EmptyMap
    /\ tasks = <<>>
    /\ stats = NoStats
    /\ delPos = 1
    /\ deleteCalls = <<>>
    /\ deletedCount = 0
    /\ pkgVersions = <<>>
    /\ tagGroups = InitTagGroups
    /\ digestToHeadTag = [d \in {} |-> UNKNOWN_TAG]
    /\ printed = NotPrinted
    /\ log = <<>>
    /\ caught = NoReason

\* ------------------------------------------------------------ cmd_parser
\* The command lines: a subcommand ("" when there is none), at most one
\* option, and the positionals that follow the subcommand.
Subcommands == {"", "list", "report", "delete", "bogus", "toString"}
Options == {"", "--orphans", "--bogus"}
Repos == {"o/r", "repo", "/r"}
TagArgs == Range(TagLists) \cup {<<" ">>}
Positionals == {<<>>} \cup {<<r>> \o t : r \in Repos, t \in TagArgs}
Argvs ==
    {a \in [subcmd : Subcommands, option : Options, positionals : Positionals] :
        a.subcmd = "" => a.positionals = <<>>}

\* String.prototype.trim() and String.prototype.indexOf("/") on the strings
\* of the command lines.
Trim(s) == IF s = " " THEN "" ELSE s
IndexOfSlash(s) == IF s = "o/r" THEN 1 ELSE IF s = "/r" THEN 0 ELSE -1

\* subcommands[subcmd]: the parse function of the subcommand; a name that
\* the object inherits from Object.prototype yields that method; any other
\* name yields undefined.
SubcommandLookup(subcmd) ==
    CASE subcmd = "list" -> "parseListCommand"
      [] subcmd = "report" -> "parseReportCommand"
      [] subcmd = "delete" -> "parseDeleteCommand"
      [] subcmd = "toString" -> "Object.prototype.toString"
      [] OTHER -> "undefined"

\* The options parseArgs() accepts for a parse function (strict mode).
KnownOptions(parseFunc) ==
    CASE parseFunc = "parseDeleteCommand" -> {"", "--orphans"}
      [] OTHER -> {""}

\* cleanAndValidatePositionals: the number of positionals a subcommand takes.
PositionalCountOk(parseFunc, n) ==
    CASE parseFunc = "parseDeleteCommand" -> n >= 2
      [] parseFunc = "parseListCommand" -> n >= 1
      [] OTHER -> n = 1

\* validateRepo: repo is not empty and has a "/" after its first character.
ValidateRepo(repo) == repo # "" /\ ~(IndexOfSlash(repo) < 1)

NoOpts(err) == [err |-> err, command |-> "none", tags |-> {}, deleteOrphans |-> FALSE]

\* parseCmdLine() as main() calls it: the options, or the way it ends
\* without options: "usage" (printUsage, undefined is returned), "notRepoOpts"
\* (a value without a repo is returned), or the CmdLineParserError thrown (a
\* TypeError of parseArgs is rethrown by main() as a CmdLineParserError).
ParseCmdLine(a) ==
    LET parseFunc == SubcommandLookup(a.subcmd)
        trimmed == [i \in DOMAIN a.positionals |-> Trim(a.positionals[i])]
    IN  CASE a.subcmd = "" /\ a.option # "" -> NoOpts("unknownOption")
          [] a.subcmd = "" -> NoOpts("usage")
          [] parseFunc = "undefined" -> NoOpts("unknownSubcommand")
          [] parseFunc = "Object.prototype.toString" -> NoOpts("notRepoOpts")
          [] a.option \notin KnownOptions(parseFunc) -> NoOpts("unknownOption")
          [] ~PositionalCountOk(parseFunc, Len(a.positionals)) -> NoOpts("positionalCount")
          [] \E i \in DOMAIN trimmed : trimmed[i] = "" -> NoOpts("blankPositional")
          [] ~ValidateRepo(trimmed[1]) -> NoOpts("invalidRepo")
          [] OTHER ->
                [err |-> "none",
                 command |-> a.subcmd,
                 tags |-> IF parseFunc = "parseReportCommand" THEN {}
                          ELSE Range(Tail(trimmed)) \ {""},
                 deleteOrphans |-> a.option = "--orphans"]

Parsed == ParseCmdLine(argv)
CmdLineParserErrors ==
    {"unknownOption", "unknownSubcommand", "positionalCount", "blankPositional", "invalidRepo"}

\* The command line and the options main() gets from it. A run that ends
\* before runCmd() never reads the ledger.
CmdLine ==
    /\ argv \in Argvs
    /\ mode = ParseCmdLine(argv).command
    /\ tagsArg = ParseCmdLine(argv).tags
    /\ orphansOpt = ParseCmdLine(argv).deleteOrphans

Init ==
    /\ CmdLine
    /\ ledger \in Ledgers
    /\ mode = "none" => ledger = <<>>
    /\ Constructed

\* list and delete v1 over the pool ledger.
InitPool ==
    /\ CmdLine
    /\ \/ mode = "none" /\ ledger = <<>>
       \/ mode \in {"list", "delete"} /\ tagsArg = {"v1"} /\ orphansOpt = FALSE
                                       /\ ledger = PoolLedger
    /\ Constructed

\* list and report over the ledgers with shared tags.
InitAnyTags ==
    /\ CmdLine
    /\ mode \in {"list", "report", "none"}
    /\ ledger \in AnyLedgers
    /\ mode = "none" => ledger = <<>>
    /\ Constructed

\* Faulty variant: an aborted signal is reported with a new error.
ThrowIfAbortedFresh(sig) == Err("aborted", 0)

\* throwIfAborted() on an aborted signal: the error it throws.  The reason
\* of every abort() call of the program is an Error.
ThrowIfAborted(sig) ==
    IF sig.reason # NoReason THEN sig.reason ELSE Err("aborted", 0)

\* An error reaches the catch block of main(): exit code, abort, return.
Throw(err) ==
    LET r == MainCatch(signal, err, tasks, exitCode)
    IN  /\ signal' = r.signal
        /\ tasks' = r.tasks
        /\ exitCode' = r.exitCode
        /\ log' = log \o r.logged
        /\ caught' = err
        /\ pc' = "done"

\* ------------------------------------------------------------ main, runCmd
\* parseCmdLine() throws: the catch block of main() sets the exit code, logs
\* the CmdLineParserError and returns.
CmdLineError ==
    /\ pc = "main"
    /\ Parsed.err \in CmdLineParserErrors
    /\ exitCode' = OrAssignOne(exitCode)
    /\ log' = Append(log, LogEntry("cmdLine", Err(Parsed.err, 0), ""))
    /\ caught' = Err(Parsed.err, 0)
    /\ pc' = "done"
    /\ UNCHANGED <<inputs, idx, signal, digestToPkgMap, tasks, planVars, listVars>>

\* if (!opts || !isRepoOpts(opts)) return;
ReturnNoOpts ==
    /\ pc = "main"
    /\ Parsed.err \in {"usage", "notRepoOpts"}
    /\ pc' = "done"
    /\ UNCHANGED <<inputs, idx, signal, exitCode, digestToPkgMap, tasks, planVars, listVars, log, caught>>

\* newOctokit() and getRegistryAuthToken() succeed; the enumeration begins.
Begin ==
    /\ pc = "main"
    /\ Parsed.err = "none"
    /\ pc' = "enum"
    /\ UNCHANGED <<inputs, idx, signal, exitCode, digestToPkgMap, tasks, planVars, listVars, log, caught>>

\* getRegistryAuthToken() throws a RegistryError.
TokenFail ==
    /\ pc = "main"
    /\ Parsed.err = "none"
    /\ Throw(Err("token", 0))
    /\ UNCHANGED <<inputs, idx, digestToPkgMap, planVars, listVars>>

\* ------------------------------------------------------------ forEachPackageVersion
\* Faulty variant: the loop does not look at the signal.
LoopContinuesAlways(sig) == TRUE

\* The check before each record: 'if (controller.signal.aborted ...) break loop'.
LoopContinues(sig) == ~sig.aborted

\* Faulty variant: the callback takes any name as a digest.
FalsyNameNever(name) == FALSE

\* if (!pkgDigest)
FalsyName(name) == name = ""

\* forEachPackageVersionCb of findOrphanOrTaggedPackageVersions for one record.
EnumRecordDelete ==
    /\ pc = "enum" /\ DeletePath
    /\ LoopContinues(signal)
    /\ idx <= Len(ledger)
    /\ LET pkg == ledger[idx]
           pkgDigest == pkg.name
       IN  IF FalsyName(pkgDigest)
           THEN LET a == ControllerAbort(signal, Err("falsyName", pkg.id), tasks, exitCode)
                    r == MainCatch(a.signal, Err("falsyName", pkg.id), a.tasks, a.exitCode)
                IN  /\ signal' = r.signal
                    /\ tasks' = r.tasks
                    /\ exitCode' = r.exitCode
                    /\ log' = log \o a.logged \o r.logged
                    /\ caught' = Err("falsyName", pkg.id)
                    /\ pc' = "done"
                    /\ UNCHANGED <<idx, digestToPkgMap>>
           ELSE LET dm1 == DefaultValueMapGet(digestToPkgMap, pkgDigest)
                    n1 == SetId(dm1.vals[pkgDigest], pkg.id)
                    tags == FilterTags(pkg.tags)
                    btd == BelongsToTagsToBeDeleted(TagsToDelete, tags)
                IN  /\ idx' = idx + 1
                    /\ IF tags = <<>>
                       THEN /\ digestToPkgMap' = MapSet(dm1, pkgDigest, n1)
                            /\ UNCHANGED tasks
                       ELSE /\ digestToPkgMap' =
                                 MapSet(dm1, pkgDigest, MarkIndex(n1, pkgDigest, tags, btd))
                            /\ tasks' = LimitSubmit(tasks, pkgDigest, tags[1], btd)
                    /\ UNCHANGED <<pc, signal, exitCode, log, caught>>
    /\ UNCHANGED <<inputs, planVars, listVars>>

\* forEachPackageVersionCb of getPackageVersionsByImageTag for one record.
EnumRecordList ==
    /\ pc = "enum" /\ mode = "list"
    /\ LoopContinues(signal)
    /\ idx <= Len(ledger)
    /\ LET pkg == ledger[idx]
       IN  /\ pkgVersions' = Append(pkgVersions, pkg)
           /\ IF pkg.tags = <<>>
              THEN UNCHANGED <<tagGroups, tasks>>
              ELSE /\ tagGroups' = SetTagGroup(tagGroups, pkg.tags, pkg.id)
                   /\ tasks' = LimitSubmit(tasks, pkg.name, pkg.tags[1], FALSE)
    /\ idx' = idx + 1
    /\ UNCHANGED <<inputs, pc, signal, exitCode, digestToPkgMap, planVars,
                   digestToHeadTag, printed, log, caught>>

\* The loop ends: the ledger is exhausted, or the signal is aborted.
EnumEnd ==
    /\ pc = "enum"
    /\ ~LoopContinues(signal) \/ idx > Len(ledger)
    /\ pc' = "join"
    /\ UNCHANGED <<inputs, idx, signal, exitCode, digestToPkgMap, tasks, planVars, listVars, log, caught>>

\* The request for a page of package versions fails.
EnumFail ==
    /\ pc = "enum"
    /\ Throw(Err("ledger", 0))
    /\ UNCHANGED <<inputs, idx, digestToPkgMap, planVars, listVars>>

\* ------------------------------------------------------------ fetch tasks
\* Faulty variant: both paths push the index's own digest.
TaskDigestsOwnPushed(deletePath, digests, own) ==
    Append(digests, own)

\* The list a fetch task applies: the delete/report path applies the fetched
\* digests as they are, the list path first pushes the index's own digest.
TaskDigests(deletePath, digests, own) ==
    IF deletePath THEN digests ELSE Append(digests, own)

\* The rest of a fetch task once getDigestsFromManifestIndex has its digests
\* (none, after an abort): the path's forEach, then the task settles.
SettleTask(t, outcome, digests, a) ==
    /\ signal' = a.signal
    /\ exitCode' = a.exitCode
    /\ log' = log \o a.logged
    /\ LET all == TaskDigests(DeletePath, digests, tasks[t].digest)
       IN  /\ tasks' = LimitNext(a.tasks, t, outcome, digests, all)
           /\ IF DeletePath
              THEN /\ digestToPkgMap' =
                        ApplyDigests(digestToPkgMap, all, tasks[t].digest, tasks[t].btd)
                   /\ UNCHANGED digestToHeadTag
              ELSE /\ digestToHeadTag' = SetHeadTags(digestToHeadTag, all, tasks[t].tag)
                   /\ UNCHANGED digestToPkgMap
    /\ UNCHANGED <<inputs, pc, idx, planVars, pkgVersions, tagGroups, printed, caught>>

\* Faulty variant: an empty manifest list is returned to the task without an abort.
EmptyManifestIgnored(sig, t, ts, ec) ==
    [signal |-> sig, tasks |-> ts, exitCode |-> ec, logged |-> <<>>]

\* getDigestsFromManifestIndex with abort: true, on an empty manifest list:
\* controller.abort(err) with the 'Empty manifest list' error.
EmptyManifest(sig, t, ts, ec) ==
    ControllerAbort(sig, Err("empty", t), ts, ec)

\* The image indexes the registry may answer with.
Responses == IF ledger \in Ledgers THEN Manifests ELSE PoolManifests

\* The errors getImageIndex() may throw: RegistryError 404, or another one.
FetchErrors == IF ledger \in Ledgers THEN {"notFound", "registry"} ELSE {"registry"}

\* getImageIndex() returns an image index.
FetchResponse ==
    \E t \in DOMAIN tasks : \E resp \in Responses :
        /\ tasks[t].st = "running"
        /\ IF resp = <<>>
           THEN SettleTask(t, "empty", <<>>, EmptyManifest(signal, t, tasks, exitCode))
           ELSE SettleTask(t, "ok", resp,
                           [signal |-> signal, tasks |-> tasks, exitCode |-> exitCode,
                            logged |-> <<>>])

\* Faulty variant: the error of getImageIndex() is swallowed.
ManifestErrorIgnored(sig, kind, t, ts, ec) ==
    [signal |-> sig, tasks |-> ts, exitCode |-> ec, logged |-> <<>>]

\* getDigestsFromManifestIndex with abort: true, in its catch block:
\* controller.abort(err) with the error getImageIndex() threw.
ManifestError(sig, kind, t, ts, ec) ==
    ControllerAbort(sig, Err(kind, t), ts, ec)

\* getImageIndex() throws (not found, or another registry error).
FetchError ==
    \E t \in DOMAIN tasks : \E kind \in FetchErrors :
        /\ tasks[t].st = "running"
        /\ SettleTask(t, "error", <<>>, ManifestError(signal, kind, t, tasks, exitCode))

\* ------------------------------------------------------------ the join
\* Faulty variant: the deletion loop runs without logRegistryStats before it.
PlanStartLoopFirst == "delete"

\* deletePackageVersions: logRegistryStats runs when the map is returned, and
\* the deletion loop after it.
PlanStart == "stats"

\* Faulty variant: the map is returned without throwIfAborted.
AfterJoinNoAbortCheck(ts, sig, deletePath) ==
    IF \E t \in DOMAIN ts : ts[t].st = "dropped" THEN "unsettled"
    ELSE IF ~deletePath THEN "print"
    ELSE "stats"

\* await Promise.all(tasks) and what follows it.  Promises of tasks dropped
\* by clearQueue never settle: the await never returns and the process ends
\* when the event loop runs dry.
AfterJoin(ts, sig, deletePath) ==
    IF \E t \in DOMAIN ts : ts[t].st = "dropped" THEN "unsettled"
    ELSE IF ~deletePath THEN "print"
    ELSE IF sig.aborted THEN "throw"
    ELSE "stats"

Join ==
    /\ pc = "join"
    /\ \A t \in DOMAIN tasks : tasks[t].st \in {"done", "dropped"}
    /\ LET next == AfterJoin(tasks, signal, DeletePath)
       IN
       IF next = "unsettled"
       THEN /\ pc' = "unsettled"
            /\ exitCode' = IF exitCode = 0 THEN UnsettledTopLevelAwait ELSE exitCode
            /\ UNCHANGED <<signal, tasks, printed, log, caught>>
       ELSE IF next = "throw"
       THEN Throw(ThrowIfAborted(signal)) /\ UNCHANGED printed
       ELSE IF next = "stats"
       THEN pc' = PlanStart /\ UNCHANGED <<signal, tasks, exitCode, printed, log, caught>>
       ELSE /\ printed' = PrintPackageVersions(pkgVersions, digestToHeadTag, tagGroups, tagsArg)
            /\ pc' = "done"
            /\ UNCHANGED <<signal, tasks, exitCode, log, caught>>
    /\ UNCHANGED <<inputs, idx, digestToPkgMap, planVars, pkgVersions, tagGroups, digestToHeadTag>>

\* ------------------------------------------------------------ deletePackageVersions
\* logRegistryStats
LogStats ==
    /\ pc = "stats"
    /\ stats' = RegistryStats(digestToPkgMap)
    /\ IF TagsToDelete = {} /\ stats'.tagToBeDeletedDigestCount > 0
       THEN Throw(Err("statsInconsistent", 0))
       ELSE pc' = "delete" /\ UNCHANGED <<signal, tasks, exitCode, log, caught>>
    /\ UNCHANGED <<inputs, idx, digestToPkgMap, delPos, deleteCalls, deletedCount, listVars>>

\* Faulty variant: a failed deletion request is swallowed and the loop goes on.
DeleteReturnsAlways(ok) == TRUE

\* await deletePackageVersion(...) returns when the request succeeds and
\* throws when it fails; the loop has no handler of its own.
DeleteReturns(ok) == ok

\* trunc8(digest) calls digest.substring: a TypeError when the key of the map
\* is the undefined digest of a manifest entry.
Trunc8Throws(digest) == digest = NoDigest

\* id === undefined: a digest listed in an image index, missing in the ledger.
IsDangling(n) == n.id = NoId

\* One iteration of the deletion loop, with the deletion request it awaits.
DeleteStep ==
    /\ pc = "delete"
    /\ delPos <= Len(digestToPkgMap.keys)
    /\ LET digest == digestToPkgMap.keys[delPos]
           n == digestToPkgMap.vals[digest]
       IN  IF Trunc8Throws(digest)
           THEN /\ Throw(Err("typeError", delPos))
                /\ UNCHANGED <<digestToPkgMap, delPos, deleteCalls, deletedCount>>
           ELSE IF OrphanInconsistent(n)
           THEN /\ Throw(Err("orphanInconsistent", delPos))
                /\ UNCHANGED <<digestToPkgMap, delPos, deleteCalls, deletedCount>>
           ELSE IF IsDangling(n)
           THEN /\ digestToPkgMap' = DefaultValueMapGet(digestToPkgMap, n.indexDigest)
                /\ log' = Append(log, LogEntry("dangling", NoReason, digest))
                /\ UNCHANGED caught
                /\ delPos' = delPos + 1
                /\ UNCHANGED <<pc, signal, tasks, exitCode, deleteCalls, deletedCount>>
           ELSE IF ~Qualifies(n, DeleteOrphans)
           THEN /\ delPos' = delPos + 1
                /\ UNCHANGED <<pc, signal, tasks, exitCode, digestToPkgMap, deleteCalls,
                               deletedCount, log, caught>>
           ELSE IF signal.aborted
           THEN /\ Throw(ThrowIfAborted(signal))
                /\ UNCHANGED <<digestToPkgMap, delPos, deleteCalls, deletedCount>>
           ELSE \E ok \in BOOLEAN :
                /\ deleteCalls' = Append(deleteCalls, [digest |-> digest, id |-> n.id, ok |-> ok])
                /\ IF DeleteReturns(ok)
                   THEN /\ deletedCount' = deletedCount + 1
                        /\ delPos' = delPos + 1
                        /\ UNCHANGED <<pc, signal, tasks, exitCode, log, caught>>
                   ELSE /\ Throw(Err("delete", n.id))
                        /\ UNCHANGED <<deletedCount, delPos>>
                /\ UNCHANGED digestToPkgMap
    /\ UNCHANGED <<inputs, idx, stats, listVars>>

\* The loop is over: the deleted count is logged and main() returns.
DeleteEnd ==
    /\ pc = "delete"
    /\ delPos > Len(digestToPkgMap.keys)
    /\ pc' = "done"
    /\ UNCHANGED <<inputs, idx, signal, exitCode, digestToPkgMap, tasks, planVars, listVars, log, caught>>

Next ==
    \/ CmdLineError
    \/ ReturnNoOpts
    \/ Begin
    \/ TokenFail
    \/ EnumRecordDelete
    \/ EnumRecordList
    \/ EnumEnd
    \/ EnumFail
    \/ FetchResponse
    \/ FetchError
    \/ Join
    \/ LogStats
    \/ DeleteStep
    \/ DeleteEnd

Spec == Init /\ [][Next]_vars

\* The event loop runs every continuation that is ready, and every request
\* that was sent is answered (with a response or with an error).
FairSpec == Spec /\ WF_vars(Next)

\* The runs over the pool ledger, and over the ledgers with shared tags.
PoolSpec == InitPool /\ [][Next]_vars
PoolFairSpec == PoolSpec /\ WF_vars(Next)
AnyTagSpec == InitAnyTags /\ [][Next]_vars

\* ------------------------------------------------------------ properties
Nodes == DOMAIN digestToPkgMap.vals
Node(d) == digestToPkgMap.vals[d]

\* findOrphanOrTaggedPackageVersions has returned the digest map.
Reconciled == DeletePath /\ (pc = "stats" \/ stats.logged)

Called == {deleteCalls[i].digest : i \in DOMAIN deleteCalls}

\* C1: in delete mode deletePackageVersion is invoked for a digest node only
\* if the node has its ledger id (the id passed) and belongsToTagsToDelete is
\* true, or deleteOrphans was requested and isOrphan is true.
C1_DeleteOnlyQualifying ==
    \A i \in DOMAIN deleteCalls :
        LET c == deleteCalls[i]
        IN  /\ c.digest \in Nodes
            /\ Node(c.digest).id # NoId
            /\ Node(c.digest).id = c.id
            /\ \/ Node(c.digest).belongsToTagsToDelete
               \/ (mode = "delete" /\ orphansOpt /\ Node(c.digest).isOrphan)

\* A delete run that ended normally, deleted something, and passed over an
\* orphan and over a non-orphan that is no deletion target.
C1_Witness ==
    /\ mode = "delete" /\ pc = "done" /\ ~signal.aborted
    /\ deleteCalls # <<>>
    /\ \E d \in Nodes \ Called : Node(d).id # NoId /\ Node(d).isOrphan
    /\ \E d \in Nodes \ Called : Node(d).id # NoId /\ ~Node(d).isOrphan

\* C3: the list and report operations never issue a deletePackageVersion call.
C3_ListReportNeverDelete ==
    mode \in {"list", "report"} => deleteCalls = <<>>

\* A report run that went through the whole deletion loop over a map with an
\* orphan and a tagged index.
C3_Witness ==
    /\ mode = "report" /\ pc = "done" /\ ~signal.aborted /\ stats.logged
    /\ delPos > Len(digestToPkgMap.keys)
    /\ \E d \in Nodes : Node(d).id # NoId /\ Node(d).isOrphan
    /\ \E d \in Nodes : Node(d).id # NoId /\ Node(d).tags # <<>>

\* C4: in delete mode the counts of logRegistryStats are logged before the
\* first deletePackageVersion call.
C4_StatsBeforeDelete ==
    deleteCalls # <<>> => stats.logged

\* The first deletion request of a delete run has just been issued.
C4_Witness ==
    mode = "delete" /\ Len(deleteCalls) = 1 /\ stats.logged /\ stats.idCount >= 2

\* C2 as stated: a fetch that returned an empty digest list makes its error
\* the abort reason, no deletion request is issued and the exit code is not 0.
C2_Original ==
    \A t \in DOMAIN tasks :
        tasks[t].outcome = "empty" =>
            /\ signal.aborted
            /\ signal.reason = Err("empty", t)
            /\ deleteCalls = <<>>
            /\ exitCode # 0

\* C2, amended: when a fetch returns an empty digest list the signal is
\* aborted from then on, with that error as the reason unless the signal was
\* aborted already (the earlier reason stays); no deletion request is issued
\* in the run and the exit code is not 0.
C2_EmptyManifestAborts ==
    [][\A t \in DOMAIN tasks' :
          tasks'[t].outcome = "empty" =>
              /\ signal'.aborted
              /\ deleteCalls' = <<>>
              /\ exitCode' # 0
              /\ (t \in DOMAIN tasks /\ tasks[t].outcome = "pending") =>
                     signal'.reason = IF signal.aborted THEN signal.reason
                                      ELSE Err("empty", t)]_vars

\* A run with two fetch tasks, one that applied its digests and one that got
\* an empty list and aborted the run; main() has returned through its catch.
C2_Witness ==
    /\ mode = "delete" /\ pc = "done"
    /\ \E t, u \in DOMAIN tasks :
          /\ tasks[t].outcome = "empty" /\ signal.reason = Err("empty", t)
          /\ tasks[u].outcome = "ok"
    /\ \E d \in Nodes : Node(d).belongsToTagsToDelete /\ Node(d).id # NoId

\* The ledger records that are image indexes, and those the filter targets.
IndexRecords == {p \in DOMAIN ledger : ledger[p].tags # <<>>}
IsTargetIndex(d) ==
    \E p \in IndexRecords : ledger[p].name = d /\ Range(ledger[p].tags) \cap TagsToDelete # {}
ListedByTargetIndex(d) ==
    \E t \in DOMAIN tasks : d \in Range(tasks[t].fetched) /\ IsTargetIndex(tasks[t].digest)

\* C5 (P4): when reconciliation completes with deletion filter tags T, a node
\* has belongsToTagsToDelete = true if and only if it is an index whose tags
\* intersect T or a digest listed in the manifest of such an index.
C5_DeletionScope ==
    Reconciled =>
        \A d \in Nodes :
            Node(d).belongsToTagsToDelete <=> (IsTargetIndex(d) \/ ListedByTargetIndex(d))

\* The nodes the deletion loop has to delete, and the requests it issued.
QualifyingNodes ==
    {d \in Nodes : /\ Node(d).id # NoId
                   /\ Node(d).belongsToTagsToDelete \/ (orphansOpt /\ Node(d).isOrphan)}
CalledIds == {deleteCalls[i].id : i \in DOMAIN deleteCalls}

\* Scenario A's ledger and manifest, with Scenario C's command line.
ScenarioA ==
    /\ mode = "delete" /\ tagsArg = {"v1"} /\ ~orphansOpt
    /\ ledger = <<[id |-> 1, name |-> "D0", tags |-> <<"v1", "latest">>],
                  [id |-> 2, name |-> "D1", tags |-> <<>>],
                  [id |-> 3, name |-> "D2", tags |-> <<>>]>>
    /\ Len(tasks) = 1 /\ tasks[1].fetched = <<"D1", "D2">>

AllQualifyingDeleted ==
    /\ pc = "done"
    /\ Called = QualifyingNodes
    /\ Len(deleteCalls) = Cardinality(QualifyingNodes)
    /\ ScenarioA => CalledIds = {1, 2, 3}

FetchFailed ==
    \/ \E t \in DOMAIN tasks : tasks[t].outcome \in {"error", "empty"}
    \/ signal.reason.kind \in {"token", "ledger"}
DeleteFailed == \E i \in DOMAIN deleteCalls : ~deleteCalls[i].ok

C7_Original ==
    (pc = "done" /\ DeleteFailed) => (QualifyingNodes \subseteq Called /\ exitCode # 0)

\* C7, amended: a failed deletion call ends the deletion loop.  The failed
\* request is the last one of the run, the requests before it succeeded and
\* were counted, the error reaches the catch block of main(), which aborts the
\* signal with it, and the exit code is not 0.
C7_FailedDeletionEndsLoop ==
    \A i \in DOMAIN deleteCalls :
        ~deleteCalls[i].ok =>
            /\ i = Len(deleteCalls)
            /\ deletedCount = i - 1
            /\ pc = "done"
            /\ signal = [aborted |-> TRUE, reason |-> Err("delete", deleteCalls[i].id)]
            /\ exitCode # 0

\* A deletion succeeded, the next one failed, and a qualifying node is left.
C7_Witness ==
    /\ Len(deleteCalls) = 2 /\ deleteCalls[1].ok /\ ~deleteCalls[2].ok
    /\ QualifyingNodes \ Called # {}

\* The three classes of P1, read off the fields of a node.
IsIndexNode(d) == Node(d).tags # <<>>
BelongsToAnIndex(d) == Node(d).indexDigest \notin {"", d}
IsOrphanNode(d) == Node(d).isOrphan
ClassCount(d) ==
    (IF IsIndexNode(d) THEN 1 ELSE 0) + (IF BelongsToAnIndex(d) THEN 1 ELSE 0)
        + (IF IsOrphanNode(d) THEN 1 ELSE 0)

\* C8 (P1) as stated: after a completed reconciliation every node is in
\* exactly one of: belongs to an index, is an index itself, is an orphan.
C8_Original ==
    Reconciled => \A d \in Nodes : ClassCount(d) = 1

ListedBy(d, x) ==
    \E t \in DOMAIN tasks : tasks[t].digest = x /\ d \in Range(tasks[t].fetched)

\* C8, amended: after a completed reconciliation every node is in exactly one
\* of two classes: orphan (isOrphan, no indexDigest, no tags), or referenced
\* (not orphan, indexDigest naming the node itself when it is an enumerated
\* index, or an index whose fetched manifest lists it).  An index node that
\* the manifest of another index lists may end in both of P1's classes
\* 'index' and 'belongs to an index'.
C8_Partition ==
    Reconciled =>
        \A d \in Nodes :
            \/ /\ Node(d).isOrphan /\ Node(d).indexDigest = "" /\ Node(d).tags = <<>>
            \/ /\ ~Node(d).isOrphan
               /\ \/ Node(d).indexDigest = d /\ Node(d).tags # <<>>
                  \/ ListedBy(d, Node(d).indexDigest)
               /\ \E p \in IndexRecords : ledger[p].name = Node(d).indexDigest

\* A completed reconciliation with an index node whose indexDigest names
\* another index, an orphan, and a plain digest that belongs to an index.
C8_Witness ==
    /\ Reconciled
    /\ \E d \in Nodes : IsIndexNode(d) /\ BelongsToAnIndex(d)
    /\ \E d \in Nodes : IsOrphanNode(d)
    /\ \E d \in Nodes : ~IsIndexNode(d) /\ BelongsToAnIndex(d)

Count(seq, x) == Cardinality({i \in DOMAIN seq : seq[i] = x})

\* C10 (P3) as stated: after a completed reconciliation every index's own node
\* has indexDigest equal to its own digest, and the list its fetch task applied
\* to the graph contains the index's own digest exactly once.
C10_Original ==
    Reconciled =>
        \A p \in IndexRecords :
            /\ Node(ledger[p].name).indexDigest = ledger[p].name
            /\ \E t \in DOMAIN tasks :
                  /\ tasks[t].digest = ledger[p].name
                  /\ Count(tasks[t].applied, ledger[p].name) = 1

\* C10, amended: after a completed reconciliation every index's own node
\* carries the record's tags and has indexDigest equal to its own digest,
\* unless the fetched manifest of an index lists it (then it may name that
\* index).  Only the fetch task of the list path pushes the index's own
\* digest at the end of the fetched list; the task of the delete/report path
\* applies the fetched list as it is.
C10_IndexSelfInclusion ==
    /\ Reconciled =>
          \A p \in IndexRecords :
              LET d == ledger[p].name
              IN  /\ d \in Nodes
                  /\ Node(d).tags = ledger[p].tags
                  /\ Node(d).indexDigest = d \/ ListedBy(d, Node(d).indexDigest)
    /\ \A t \in DOMAIN tasks :
          tasks[t].st = "done" =>
              tasks[t].applied = IF mode = "list"
                                 THEN Append(tasks[t].fetched, tasks[t].digest)
                                 ELSE tasks[t].fetched

\* A completed reconciliation in which the task of an index applied a list
\* without the index's own digest, and the index's node names itself.
C10_Witness ==
    /\ Reconciled
    /\ \E t \in DOMAIN tasks :
          /\ tasks[t].outcome = "ok"
          /\ Len(tasks[t].applied) = 2
          /\ tasks[t].digest \notin Range(tasks[t].applied)
          /\ Node(tasks[t].digest).indexDigest = tasks[t].digest

\* ------------------------------------------------------------ tag groups
\* The records the list path has enumerated, and the last of them with tag t.
Enumerated == 1..(idx - 1)
CarriedLaterThan(p, t) == \E q \in Enumerated : q > p /\ t \in Range(ledger[q].tags)
SameGroup(t1, t2) ==
    /\ t1 \in DOMAIN tagGroups /\ t2 \in DOMAIN tagGroups
    /\ tagGroups[t1] = tagGroups[t2]
    /\ {t1, t2} \subseteq Range(tagGroups[t1].members)

\* C11 (P2) as stated: after the enumeration of any sequence of records, two
\* tags that appear together in the tag list of a record map to the same set
\* object, which contains both.
C11_Original ==
    mode = "list" =>
        \A p \in Enumerated : \A t1, t2 \in Range(ledger[p].tags) : SameGroup(t1, t2)

\* C11, amended: two tags that appear together in the tag list of a record,
\* neither of which is in the tag list of a later record, map to the same set
\* object: the set made for that record, whose members are the record's tags.
\* A tag that a later record carries maps to the set of the last such record.
C11_TagGroupOfLastRecord ==
    mode = "list" =>
        \A p \in Enumerated : \A t1, t2 \in Range(ledger[p].tags) :
            (~CarriedLaterThan(p, t1) /\ ~CarriedLaterThan(p, t2)) =>
                /\ SameGroup(t1, t2)
                /\ tagGroups[t1] = [obj |-> ledger[p].id, members |-> ledger[p].tags]

\* The list run has ended over a record tagged v1 and latest followed by a
\* record tagged v1: latest maps to the set of the first, v1 to the set of
\* the second.
C11_Witness ==
    /\ mode = "list" /\ pc = "done" /\ printed.done
    /\ Len(ledger) >= 2
    /\ ledger[1].tags = <<"v1", "latest">> /\ ledger[2].tags = <<"v1">>
    /\ tagGroups["latest"].obj = 1 /\ tagGroups["v1"].obj = 2

\* C12 as stated: the groups of records that share a tag are merged, so that
\* every tag belongs to exactly one group: t is a member of tagGroups.get(t)
\* and every member u of that group maps to the same group.
C12_Original ==
    mode = "list" =>
        \A t \in DOMAIN tagGroups :
            /\ t \in Range(tagGroups[t].members)
            /\ \A u \in Range(tagGroups[t].members) :
                  u \in DOMAIN tagGroups /\ tagGroups[u] = tagGroups[t]

\* C12, amended: groups are never merged.  The callback maps every tag of the
\* record to a new set holding exactly the record's tags and leaves the entry
\* of every other tag as it was, so a set made for an earlier record keeps
\* listing a tag that now maps to the later record's set.  Every tag of the
\* map is a member of the set it maps to.
C12_GroupsReplacedNotMerged ==
    [][(mode = "list" /\ idx' = idx + 1) =>
          LET pkg == ledger[idx]
          IN  \A t \in DOMAIN tagGroups' :
                  /\ t \in Range(tagGroups'[t].members)
                  /\ IF t \in Range(pkg.tags)
                     THEN tagGroups'[t] = [obj |-> pkg.id, members |-> pkg.tags]
                     ELSE t \in DOMAIN tagGroups /\ tagGroups'[t] = tagGroups[t]]_vars

\* After a record tagged v1 and latest and a record tagged latest, v1 maps to
\* the first record's set, which lists latest, and latest maps to another set.
C12_Witness ==
    /\ mode = "list" /\ idx = 3
    /\ ledger[1].tags = <<"v1", "latest">> /\ ledger[2].tags = <<"latest">>
    /\ tagGroups["v1"] = [obj |-> 1, members |-> <<"v1", "latest">>]
    /\ tagGroups["latest"] = [obj |-> 2, members |-> <<"latest">>]

\* C13: in every reachable state tagGroups.get('Unknown') is exactly the set
\* {'Unknown'} made at initialization, whatever tags the records carry.
C13_UnknownReserved ==
    /\ UNKNOWN_TAG \in DOMAIN tagGroups
    /\ tagGroups[UNKNOWN_TAG] = [obj |-> 0, members |-> <<UNKNOWN_TAG>>]

\* ------------------------------------------------------------ abort
AbortLogged(l) == SelectSeq(l, LAMBDA e : e.kind = "abort")

\* C14 (P5): abort is idempotent.  An aborted signal keeps its reason through
\* every later abort() call, main's abort listener runs once, when the signal
\* is first aborted, and what it logs is the reason every later observer
\* reads from the signal.
C14_AbortIdempotent ==
    [][/\ signal.aborted => signal' = signal
       /\ Len(AbortLogged(log')) = (IF signal'.aborted THEN 1 ELSE 0)
       /\ \A i \in DOMAIN AbortLogged(log') : AbortLogged(log')[i].err = signal'.reason]_vars

\* Two fetch tasks failed, the first with an error and the second with
\* another, throwIfAborted threw the first reason and the catch block of
\* main() called abort() once more.
C14_Witness ==
    /\ DeletePath /\ pc = "done"
    /\ \E t, u \in DOMAIN tasks :
          /\ t # u
          /\ tasks[t].outcome = "error" /\ tasks[u].outcome \in {"error", "empty"}
          /\ signal = [aborted |-> TRUE, reason |-> Err("notFound", t)]
    /\ Len(AbortLogged(log)) = 1

\* ------------------------------------------------------------ the limiter
Started(t) == tasks[t].st \in {"running", "done"}

\* C15: at every moment at most 5 fetch tasks are in flight, however many
\* tagged records the enumeration has submitted.
C15_AtMostFiveInFlight ==
    Running(tasks) <= Concurrency

\* Seven tasks are submitted, five in flight and two waiting.
C15_Witness ==
    /\ Len(tasks) = PoolRecords
    /\ Running(tasks) = Concurrency
    /\ Cardinality(Queued(tasks)) = 2

\* C16: fetch tasks start in submission order: a task has not started while a
\* task submitted before it has not.
C16_StartInSubmissionOrder ==
    \A a, b \in DOMAIN tasks : (a < b /\ Started(b)) => Started(a)

\* One of the first five tasks has settled and the sixth has started, while
\* the seventh, submitted last, still waits.
C16_Witness ==
    /\ Len(tasks) = PoolRecords
    /\ \E t \in 1..Concurrency : tasks[t].st = "done"
    /\ tasks[Concurrency + 1].st = "running"
    /\ tasks[Concurrency + 2].st = "queued"

\* C17: on abort the queue is drained.  Once the signal is aborted no task
\* waits in the queue; a task that was queued at the abort is dropped and
\* stays dropped, without a request and without an update of the maps; a task
\* in flight is not dropped and goes on to settle.
C17_QueueDrainedOnAbort ==
    [][\A t \in DOMAIN tasks :
          /\ (signal'.aborted /\ tasks[t].st \in {"queued", "dropped"}) =>
                 /\ tasks'[t].st = "dropped"
                 /\ tasks'[t].outcome = "pending"
                 /\ tasks'[t].fetched = <<>> /\ tasks'[t].applied = <<>>
          /\ tasks[t].st = "running" => tasks'[t].st \in {"running", "done"}]_vars

\* The sixth task was dropped by an abort, so the first five were in flight
\* at the abort; all five have settled since, one of them with its digests.
C17_Witness ==
    /\ signal.aborted
    /\ Len(tasks) > Concurrency
    /\ tasks[Concurrency + 1].st = "dropped"
    /\ \A t \in 1..Concurrency : tasks[t].st = "done"
    /\ \E t \in 1..Concurrency : tasks[t].outcome = "ok"

\* C18: the join resolves once every submitted task has completed or been
\* dropped: no run ends with 'await Promise.all(tasks)' still pending.
C18_JoinResolves ==
    pc # "unsettled"

\* ------------------------------------------------------------ enumeration
\* C19: once the signal is aborted the enumeration processes no further
\* record: the callback is invoked for no later record and no fetch task is
\* submitted.
C19_NoRecordAfterAbort ==
    [][signal.aborted =>
          /\ idx' = idx
          /\ Len(tasks') = Len(tasks)
          /\ pkgVersions' = pkgVersions]_vars

\* A fetch task aborted the signal while records were left; the loop has
\* ended without them.
C19_Witness ==
    /\ pc = "join"
    /\ signal.aborted /\ signal.reason.kind \in {"notFound", "registry", "empty"}
    /\ idx > 1 /\ idx < Len(ledger)

\* ------------------------------------------------------------ dangling references
DanglingLogged(d) == \E i \in DOMAIN log : log[i].kind = "dangling" /\ log[i].digest = d

\* C20: a node whose id is still unset after the join is reported as a
\* registry inconsistency when the deletion loop comes to it, is never passed
\* to deletePackageVersion, and does not end the run.
C20_DanglingReported ==
    stats.logged =>
        \A k \in DOMAIN digestToPkgMap.keys :
            LET d == digestToPkgMap.keys[k]
            IN  Node(d).id = NoId =>
                    /\ d \notin Called
                    /\ k < delPos => DanglingLogged(d)
                    /\ ~(pc = "done" /\ signal.aborted /\ delPos = k)

\* ------------------------------------------------------------ empty filter
\* C21: with an empty deletion filter no node ever has belongsToTagsToDelete
\* = true, and the 'No tag given for deletion, but found ...' error of
\* logRegistryStats is never raised.
C21_EmptyFilterNoTargets ==
    (DeletePath /\ TagsToDelete = {}) =>
        /\ \A d \in Nodes : ~Node(d).belongsToTagsToDelete
        /\ signal.reason.kind # "statsInconsistent"
        /\ stats.tagToBeDeletedDigestCount = 0

\* A report run has logged its counts over a map with two indexes and a
\* digest that both list.
C21_Witness ==
    /\ mode = "report" /\ stats.logged /\ pc = "delete"
    /\ Len(tasks) = 2
    /\ \E d \in Nodes : d \in Range(tasks[1].fetched) \cap Range(tasks[2].fetched)

\* ------------------------------------------------------------ exit status
Ended == pc \in {"done", "unsettled"}
ErrorThrown == \E i \in DOMAIN log : log[i].kind = "cmdLine"

\* C22: a run that ends with the signal aborted ends with a non-zero exit
\* status, and a run that ends with the signal not aborted and without an
\* error thrown ends with exit status zero.
C22_ExitStatus ==
    Ended =>
        /\ signal.aborted => exitCode # 0
        /\ (~signal.aborted /\ ~ErrorThrown) => exitCode = 0

\* A deletion run ended by an abort after fetch tasks were scheduled.
C22_Witness ==
    /\ pc = "done" /\ signal.aborted /\ exitCode = 1
    /\ mode = "delete" /\ Len(tasks) > 0

\* ------------------------------------------------------------ user input
UnknownSubcommand == argv.subcmd \notin {"", "list", "report", "delete"}
MalformedRepo ==
    /\ argv.subcmd \in {"list", "report", "delete"}
    /\ Len(argv.positionals) > 0
    /\ argv.positionals[1] \in {"repo", "/r"}
WrongPositionalCount ==
    \/ argv.subcmd = "list" /\ Len(argv.positionals) < 1
    \/ argv.subcmd = "report" /\ Len(argv.positionals) # 1
    \/ argv.subcmd = "delete" /\ Len(argv.positionals) < 2
UserInputError == UnknownSubcommand \/ MalformedRepo \/ WrongPositionalCount

\* C23: a user input error (malformed repository string, unknown subcommand,
\* wrong number of positionals) ends the run before any request is made,
\* with the signal not aborted and with a non-zero exit status.
C23_InputErrorRejected ==
    UserInputError =>
        /\ pc \in {"main", "done"}
        /\ ~signal.aborted
        /\ pc = "done" => exitCode # 0

\* ------------------------------------------------------------ missing digest
\* C24: a manifest entry without a digest is skipped: no node is created for
\* the missing digest, and the run is not ended by it.
C24_MissingDigestSkipped ==
    DeletePath =>
        /\ NoDigest \notin Nodes
        /\ signal.reason.kind # "typeError"

\* ------------------------------------------------------------ failed fetch
FailedNow(t) ==
    /\ t \in DOMAIN tasks /\ tasks[t].outcome = "pending"
    /\ tasks'[t].outcome = "error"

\* C25 as stated: a fetch task whose manifest request failed has made its
\* error the abort reason.
C25_Original ==
    \A t \in DOMAIN tasks :
        tasks[t].outcome = "error" =>
            /\ signal.aborted
            /\ signal.reason.who = t
            /\ signal.reason.kind \in {"notFound", "registry"}

\* C25, amended: a failed manifest fetch (not found or another registry
\* error) aborts the signal, with its error as the reason unless the signal
\* was aborted already (the earlier reason stays); the task gets no digests
\* and, in the delete/report path, the digest map is left as it was.
C25_FailedFetchAborts ==
    [][\A t \in DOMAIN tasks' :
          FailedNow(t) =>
              /\ signal'.aborted
              /\ exitCode' # 0
              /\ signal'.reason =
                    IF signal.aborted THEN signal.reason
                    ELSE IF signal'.reason.kind = "notFound" THEN Err("notFound", t)
                    ELSE Err("registry", t)
              /\ tasks'[t].fetched = <<>>
              /\ DeletePath => digestToPkgMap' = digestToPkgMap]_vars

\* Two fetch tasks of a delete/report run: one applied its digests, then the
\* request of the other was answered with not found and aborted the run.
C25_Witness ==
    /\ DeletePath /\ pc = "done"
    /\ \E t, u \in DOMAIN tasks :
          /\ tasks[t].outcome = "error" /\ signal.reason = Err("notFound", t)
          /\ tasks[u].outcome = "ok" /\ tasks[u].applied # <<>>

\* ------------------------------------------------------------ interleavings
TaskOf(d) == CHOOSE t \in DOMAIN tasks : tasks[t].digest = d

\* The digest map of the run over the same ledger and manifests in which
\* every fetch task resolves before the next record is enumerated.
RECURSIVE SequentialRun(_, _)
SequentialRun(dm, p) ==
    IF p > Len(ledger) THEN dm
    ELSE LET pkg == ledger[p]
             dm1 == DefaultValueMapGet(dm, pkg.name)
             n1 == [dm1.vals[pkg.name] EXCEPT !.id = pkg.id]
             tags == FilterTags(pkg.tags)
             btd == BelongsToTagsToBeDeleted(TagsToDelete, tags)
             dm2 == IF tags = <<>> THEN MapSet(dm1, pkg.name, n1)
                    ELSE ApplyDigests(
                             MapSet(dm1, pkg.name, MarkIndex(n1, pkg.name, tags, btd)),
                             TaskDigests(TRUE, tasks[TaskOf(pkg.name)].fetched, pkg.name),
                             pkg.name, btd)
         IN  SequentialRun(dm2, p + 1)

DigestInTwoIndexes ==
    \E t, u \in DOMAIN tasks :
        t # u /\ Range(tasks[t].fetched) \cap Range(tasks[u].fetched) # {}
IndexInOtherIndex ==
    \E t, u \in DOMAIN tasks : t # u /\ tasks[u].digest \in Range(tasks[t].fetched)

\* C26: when no digest is listed by two different indexes, the digest map
\* the reconciliation returns is the same for every interleaving of the fetch
\* tasks and the enumeration: it is the map of the sequential run.
C26_SameMapForEveryInterleaving ==
    (Reconciled /\ ~DigestInTwoIndexes) =>
        digestToPkgMap.vals = SequentialRun(EmptyMap, 1).vals

\* The indexes whose fetched manifest lists the digest.
ListingIndexes(d) ==
    {tasks[t].digest : t \in {u \in DOMAIN tasks : d \in Range(tasks[u].fetched)}}

\* C27: when a digest is listed by two different indexes the reconciliation
\* still completes, the node's indexDigest is that of one of the two indexes
\* (the one whose task resolved last), and the conflict is logged.
C27_SharedDigestLogged ==
    \A d \in Nodes :
        (Reconciled /\ Cardinality(ListingIndexes(d)) >= 2) =>
            /\ Node(d).indexDigest \in ListingIndexes(d)
            /\ \E i \in DOMAIN log : log[i].kind = "conflict" /\ log[i].digest = d

\* ------------------------------------------------------------ list buckets
\* headTagToPkgVersions of a list run whose enumeration and fetches completed.
ListCompleted == mode = "list" /\ printed.done /\ ~signal.aborted
Buckets == GroupBy(pkgVersions, digestToHeadTag, <<>>)
BucketsOf(id) == {i \in DOMAIN Buckets : id \in Range(Buckets[i].pkgs)}
IsIndexRecord(p) == ledger[p].tags # <<>>
TasksReferencing(name) ==
    {t \in DOMAIN tasks : tasks[t].digest = name \/ name \in Range(tasks[t].fetched)}

\* Scenario A: an index tagged v1 and latest whose manifest lists D1 and D2.
ScenarioAList ==
    /\ ledger = <<[id |-> 1, name |-> "D0", tags |-> <<"v1", "latest">>],
                  [id |-> 2, name |-> "D1", tags |-> <<>>],
                  [id |-> 3, name |-> "D2", tags |-> <<>>]>>
    /\ Len(tasks) = 1 /\ tasks[1].fetched = <<"D1", "D2">>

\* Scenario B: one plain record without tags that no index references.
ScenarioB == ledger = <<[id |-> 1, name |-> "D0", tags |-> <<>>]>>

\* C28: after a completed list run every enumerated record is in exactly one
\* bucket: under the head tag of an index that lists its digest or whose own
\* digest it is, and under 'Unknown' exactly when it is not an index and no
\* index references it.  Scenario A: the three records are under the group
\* {v1, latest}; Scenario B: the record is under 'Unknown'.
C28_OneBucketPerRecord ==
    ListCompleted =>
        /\ \A p \in DOMAIN ledger :
              /\ Cardinality(BucketsOf(ledger[p].id)) = 1
              /\ \A i \in BucketsOf(ledger[p].id) :
                    /\ Buckets[i].headTag = UNKNOWN_TAG <=>
                          (~IsIndexRecord(p) /\ TasksReferencing(ledger[p].name) = {})
                    /\ Buckets[i].headTag # UNKNOWN_TAG =>
                          \E t \in TasksReferencing(ledger[p].name) :
                              tasks[t].tag = Buckets[i].headTag
        /\ ScenarioAList =>
              /\ Len(Buckets) = 1 /\ Buckets[1].pkgs = <<1, 2, 3>>
              /\ Range(tagGroups[Buckets[1].headTag].members) = {"v1", "latest"}
        /\ ScenarioB =>
              Buckets = <<[headTag |-> UNKNOWN_TAG, pkgs |-> <<1>>]>>

\* ------------------------------------------------------------ list filter
Printable(b) ==
    /\ b.headTag \in DOMAIN tagGroups
    /\ tagsArg = {} \/ tagsArg \cap Range(tagGroups[b.headTag].members) # {}
PrintableBuckets == SelectSeq(Buckets, LAMBDA b : Printable(b))
RECURSIVE SumPkgs(_)
SumPkgs(bs) == IF bs = <<>> THEN 0 ELSE Len(Head(bs).pkgs) + SumPkgs(Tail(bs))

\* The enumerated records without tags that no fetched index references.
TrueOrphans ==
    {p \in DOMAIN pkgVersions :
        pkgVersions[p].tags = <<>> /\ TasksReferencing(pkgVersions[p].name) = {}}
PrintedIds == UNION {Range(printed.lines[i].pkgs) : i \in DOMAIN printed.lines}

\* C29 as stated, its last part: with a non-empty filter the true orphans
\* are still printed.
C29_Original ==
    (mode = "list" /\ printed.done /\ tagsArg # {}) =>
        \A p \in TrueOrphans : pkgVersions[p].id \in PrintedIds

\* C29, amended: the buckets printed are, in order, those whose tag group
\* the filter intersects, or all of them when the filter is empty, and then
\* the printed package count is the number of enumerated records; the
\* 'Unknown' bucket is filtered like any other, so with a filter that does
\* not intersect its group the true orphans are not printed.
C29_FilterAppliesToEveryBucket ==
    (mode = "list" /\ printed.done) =>
        /\ printed.lines =
              [i \in DOMAIN PrintableBuckets |->
                  [tags |-> tagGroups[PrintableBuckets[i].headTag].members,
                   pkgs |-> PrintableBuckets[i].pkgs]]
        /\ printed.tagGroupCount = Len(PrintableBuckets)
        /\ printed.pkgCount = SumPkgs(PrintableBuckets)
        /\ tagsArg = {} =>
              /\ Len(printed.lines) = Len(Buckets)
              /\ printed.pkgCount = Len(pkgVersions)
        /\ (tagsArg # {} /\ tagsArg \cap Range(tagGroups[UNKNOWN_TAG].members) = {}) =>
              \A p \in TrueOrphans : pkgVersions[p].id \notin PrintedIds

\* A list run with a filter printed the bucket of an index and left out the
\* 'Unknown' bucket, which holds a true orphan.
C29_Witness ==
    /\ mode = "list" /\ printed.done /\ tagsArg = {"v1"} /\ ~signal.aborted
    /\ Len(printed.lines) = 1 /\ Len(Buckets) = 2
    /\ TrueOrphans # {}

\* ------------------------------------------------------------ frame of the map
\* C30: the digest map is append-only (a node, once created, stays, and the
\* insertion order of the earlier keys stays), and once the reconciliation
\* has returned it neither logRegistryStats nor the deletion loop inserts a
\* node or changes a field of one, the lookup of a dangling node's
\* indexDigest with the default-inserting get() included.
C30_MapAppendOnly ==
    [][/\ Nodes \subseteq DOMAIN digestToPkgMap'.vals
       /\ SubSeq(digestToPkgMap'.keys, 1, Len(digestToPkgMap.keys)) = digestToPkgMap.keys
       /\ Reconciled => digestToPkgMap' = digestToPkgMap]_vars

\* A delete run ended after the loop warned about a dangling reference
\* (looking up the index of the node) and deleted a package version.
C30_Witness ==
    /\ mode = "delete" /\ pc = "done" /\ ~signal.aborted
    /\ \E d \in Nodes : DanglingLogged(d)
    /\ deletedCount >= 1

\* ------------------------------------------------------------ throwIfAborted
\* C31: a delete/report run that finds the signal aborted after the join, or
\* before a deletion call, ends with the stored abort reason as the error
\* main() catches, and the reason stays as it was.
C31_StoredReasonRethrown ==
    [][(DeletePath /\ signal.aborted /\ pc \in {"join", "delete"} /\ pc' = "done") =>
           /\ caught' = signal.reason
           /\ signal' = signal]_vars

\* A fetch failed with not found, the other fetch applied its digests, and
\* throwIfAborted after the join threw the error of the failed fetch.
C31_Witness ==
    /\ DeletePath /\ pc = "done"
    /\ \E t, u \in DOMAIN tasks :
          /\ tasks[t].outcome = "error" /\ caught = Err("notFound", t)
          /\ tasks[u].outcome = "ok"
    /\ signal.reason = caught

\* ------------------------------------------------------------ report counts
RECURSIVE LedgerTagCount(_)
LedgerTagCount(l) == IF l = <<>> THEN 0 ELSE Len(Head(l).tags) + LedgerTagCount(Tail(l))

\* C32: the counts logRegistryStats logs after a completed reconciliation:
\* package versions = ledger records, distinct digests = nodes, tags = sum
\* of the tag-list lengths of the records, orphans = nodes with isOrphan,
\* deletion matches = nodes with belongsToTagsToDelete.  Scenario D: for an
\* empty ledger the counts are zero and the run ends without error, and the
\* tag-group map of a list run holds only the 'Unknown' group.
C32_ReportCounts ==
    /\ (DeletePath /\ stats.logged) =>
          /\ stats.idCount = Len(ledger)
          /\ stats.digests = Cardinality(Nodes)
          /\ stats.overallTagCount = LedgerTagCount(ledger)
          /\ stats.orphanCount = Cardinality({d \in Nodes : Node(d).isOrphan})
          /\ stats.tagToBeDeletedDigestCount =
                Cardinality({d \in Nodes : Node(d).belongsToTagsToDelete})
          /\ ledger = <<>> =>
                /\ stats = [NoStats EXCEPT !.logged = TRUE]
                /\ ~signal.aborted /\ exitCode = 0 /\ caught = NoReason
    /\ (mode = "list" /\ ledger = <<>>) => tagGroups = InitTagGroups

\* A report over two records: an index with two tags whose manifest lists
\* the other record and a digest that is not in the ledger.
C32_Witness ==
    /\ mode = "report" /\ pc = "done" /\ ~signal.aborted
    /\ stats.idCount = 2 /\ stats.digests = 3 /\ stats.overallTagCount = 2
    /\ stats.orphanCount = 0

\* ------------------------------------------------------------ head tag of a fetch
\* C33: in the list path the step that observes a tagged record maps every
\* tag of the record to the record's tag set and submits the record's fetch
\* task with the first tag of that set; the tag and the digest of a task never
\* change afterwards, and the tag-group map changes in no other step.
C33_HeadTagFinal ==
    [][mode = "list" =>
          /\ \A t \in DOMAIN tasks :
                /\ t \in DOMAIN tasks'
                /\ tasks'[t].tag = tasks[t].tag
                /\ tasks'[t].digest = tasks[t].digest
          /\ tagGroups' # tagGroups => Len(tasks') = Len(tasks) + 1
          /\ Len(tasks') = Len(tasks) + 1 =>
                LET new == tasks'[Len(tasks')]
                    rec == ledger[idx]
                IN  /\ idx' = idx + 1
                    /\ new.digest = rec.name
                    /\ new.tag = rec.tags[1]
                    /\ \A g \in Range(rec.tags) :
                          tagGroups'[g] = [obj |-> rec.id, members |-> rec.tags]
                    /\ new.tag = Head(tagGroups'[new.tag].members)]_vars

\* The fetch of a record tagged latest is in flight, with tag latest, after a
\* later record tagged v1 and latest re-pointed latest to a set headed by v1.
C33_Witness ==
    /\ mode = "list" /\ Len(tasks) = 2
    /\ tasks[1].st = "running" /\ tasks[1].tag = "latest"
    /\ Head(tagGroups["latest"].members) = "v1"

\* ------------------------------------------------------------ one task per index
TaggedUpTo(n) == {p \in 1..n : ledger[p].tags # <<>>}
NodeOrDefault(d) == IF d \in Nodes THEN Node(d) ELSE DefaultPkgInfo

\* C34: in the delete/report path the tasks are submitted by the enumeration
\* only, one for each enumerated record with tags, in ledger order, and none
\* for a record without tags: such a record only sets the id of its node and
\* leaves the other fields of the node, and every other node, as they were.
C34_OneTaskPerTaggedRecord ==
    [][DeletePath =>
          /\ Len(tasks') = Cardinality(TaggedUpTo(idx' - 1))
          /\ \A p \in TaggedUpTo(idx' - 1) :
                tasks'[Cardinality(TaggedUpTo(p))].digest = ledger[p].name
          /\ (idx' = idx + 1 /\ ledger[idx].tags = <<>>) =>
                /\ tasks' = tasks
                /\ digestToPkgMap'.vals =
                      [d \in Nodes \cup {ledger[idx].name} |->
                          IF d = ledger[idx].name
                          THEN [NodeOrDefault(d) EXCEPT !.id = ledger[idx].id]
                          ELSE Node(d)]]_vars

\* The record D1 has no tags and was enumerated; its node has its id and is
\* marked as listed by the index D0.
C34_Witness ==
    /\ DeletePath /\ Len(ledger) = 2 /\ idx = 3 /\ Len(tasks) = 1
    /\ ledger[2].tags = <<>>
    /\ "D1" \in Nodes /\ Node("D1").id = 2
    /\ ~Node("D1").isOrphan /\ Node("D1").indexDigest = "D0"

\* ------------------------------------------------------------ isOrphan
\* C35: isOrphan is monotone.  A node that no index record or fetched
\* manifest has named yet is created with isOrphan = TRUE, and a node whose
\* isOrphan is FALSE keeps it FALSE in every later step.
C35_OrphanMonotone ==
    [][/\ \A d \in Nodes :
            ~Node(d).isOrphan => (d \in DOMAIN digestToPkgMap'.vals
                                  /\ ~digestToPkgMap'.vals[d].isOrphan)
       /\ \A d \in DOMAIN digestToPkgMap'.vals \ Nodes :
            digestToPkgMap'.vals[d].indexDigest = "" => digestToPkgMap'.vals[d].isOrphan]_vars

\* After the join of a run over three records: a record no index lists is
\* still an orphan, and a record that an index lists is not, although it
\* was enumerated after the fetch or before it.
C35_Witness ==
    /\ DeletePath /\ pc = "delete" /\ Len(ledger) = 3
    /\ \E d, e \in Nodes :
          /\ Node(d).isOrphan /\ Node(d).id # NoId
          /\ ~Node(e).isOrphan /\ Node(e).id # NoId /\ Node(e).tags = <<>>

\* ------------------------------------------------------------ planner start
\* C36: logRegistryStats and the deletion loop run only on a digest map
\* that was returned with the signal not aborted, after every record was
\* enumerated and every submitted fetch task settled with its digests.
C36_PlannerAfterCleanJoin ==
    (DeletePath /\ (pc \in {"stats", "delete"} \/ stats.logged \/ deleteCalls # <<>>)) =>
        /\ idx = Len(ledger) + 1
        /\ \A t \in DOMAIN tasks : tasks[t].st = "done" /\ tasks[t].outcome = "ok"
        /\ pc \in {"stats", "delete"} => ~signal.aborted
        /\ signal.aborted =>
              signal.reason.kind \in {"statsInconsistent", "typeError", "orphanInconsistent", "delete"}

\* The deletion loop of a delete run is under way after two fetches settled.
C36_Witness ==
    /\ mode = "delete" /\ pc = "delete" /\ delPos = 2
    /\ Len(tasks) = 2 /\ Len(deleteCalls) = 1

\* ------------------------------------------------------------ list after abort
\* C37: in list mode nothing is printed once the signal is aborted.
C37_NoListingAfterAbort ==
    (mode = "list" /\ signal.aborted) => ~printed.done

\* ------------------------------------------------------------ bucket keys
\* C38: every key of the head-tag-to-package-versions map is a key of the
\* tag-group map, whatever has been enumerated and fetched so far, so the
\* printer finds a tag group for every bucket and prints or filters it.
C38_BucketKeysHaveGroups ==
    mode = "list" =>
        /\ \A i \in DOMAIN Buckets : Buckets[i].headTag \in DOMAIN tagGroups
        /\ (printed.done /\ tagsArg = {}) => printed.tagGroupCount = Len(Buckets)

\* A printed listing with a bucket for an index and the 'Unknown' bucket.
C38_Witness ==
    /\ mode = "list" /\ printed.done /\ tagsArg = {}
    /\ printed.tagGroupCount = 2
    /\ \E i, j \in DOMAIN Buckets :
          Buckets[i].headTag = UNKNOWN_TAG /\ Buckets[j].headTag = "latest"

\* ------------------------------------------------------------ deletion calls
OkCalls == {i \in DOMAIN deleteCalls : deleteCalls[i].ok}
LoopCompleted == DeletePath /\ pc = "done" /\ stats.logged /\ ~signal.aborted

\* C39: in a run deletePackageVersion is called at most once for a digest
\* node and at most once for a ledger id, the deleted count is the number of
\* calls that returned, and the count logged when the loop completes is the
\* number of calls made.
C39_OneCallPerNode ==
    /\ \A i, j \in DOMAIN deleteCalls :
          (deleteCalls[i].digest = deleteCalls[j].digest \/ deleteCalls[i].id = deleteCalls[j].id)
              => i = j
    /\ \A i \in DOMAIN deleteCalls :
          \E p \in DOMAIN ledger :
              ledger[p].name = deleteCalls[i].digest /\ ledger[p].id = deleteCalls[i].id
    /\ deletedCount = Cardinality(OkCalls)
    /\ LoopCompleted => deletedCount = Len(deleteCalls)

\* A delete run that completed its loop after three deletion calls.
C39_Witness ==
    /\ LoopCompleted /\ mode = "delete"
    /\ Len(deleteCalls) = 3 /\ deletedCount = 3

\* ------------------------------------------------------------ falsy digest
\* C40: in the delete/report path the enumeration never goes past a record
\* with a falsy name, no node is created for it and no deletion call is made
\* in the run; the step that observes the record aborts the signal, ends
\* the run with an error and a non-zero exit code, and submits no task.
C40_FalsyNameAborts ==
    [][DeletePath =>
          \A p \in DOMAIN ledger :
              ledger[p].name = "" =>
                  /\ idx' <= p
                  /\ "" \notin DOMAIN digestToPkgMap'.vals
                  /\ deleteCalls' = <<>>
                  /\ ~stats'.logged
                  /\ (idx = p /\ pc = "enum" /\ pc' = "done" /\ caught'.kind # "ledger") =>
                        /\ caught' = Err("falsyName", ledger[p].id)
                        /\ signal'.aborted
                        /\ exitCode' # 0
                        /\ Len(tasks') = Len(tasks)
                        /\ digestToPkgMap' = digestToPkgMap]_vars

\* The second record has a falsy name: the run ended there, with the fetch
\* of the first record submitted and the falsy-name error as abort reason.
C40_Witness ==
    /\ DeletePath /\ pc = "done" /\ idx = 2
    /\ Len(ledger) >= 2 /\ ledger[2].name = ""
    /\ Len(tasks) = 1
    /\ signal.reason = Err("falsyName", 2) /\ caught = signal.reason

====
